---------------------------- MODULE Spec2Model ----------------------------
(***************************************************************************)
(* issue-sync: one-way synchronisation of GitHub issues into JIRA.         *)
(*                                                                         *)
(* The model follows cmd.RootCmd.RunE (the run: configuration, the loop    *)
(* over the configured repositories, SaveConfig, the daemon period),       *)
(* lib.CompareIssues (one pass for one repository), lib.UpdateIssue,       *)
(* lib.CreateIssue, lib.DidIssueChange, lib.NewTranslatedIssue and         *)
(* lib.GitHubToJiraBody, and cfg.Config.getFieldIDs / GetFieldKey.         *)
(*                                                                         *)
(* Texts that the markup translator rewrites (issue bodies, descriptions)  *)
(* are sequences of one-character strings; all other texts are strings.    *)
(* The two trackers, the comment reconciler and the clock are the          *)
(* environment: every call to them may succeed or fail.                    *)
(***************************************************************************)
EXTENDS Integers, Sequences, FiniteSets, TLC

\* ------------------------------------------------------------------ bounds
\* Source issues carry the ids 1..MaxIssues.
MaxIssues == 2
\* The destination project holds at most MaxJira issues when a pass lists it.
MaxJira == 2
\* The run is configured with MaxRepos repository/project pairs.
MaxRepos == 2
\* The daemon loop is followed for at most MaxPeriods periods.
MaxPeriods == 2
\* The longest plain text of a translated body, in characters.
MaxText == 2

\* The absent value: no error, no repository.
Nil == "<nil>"

\* A pointer to a text is the sequence of what it points to: none when nil.
NilPtr == <<>>

Ptr(v) == <<v>>

Deref(p) == p[1]

\* ----------------------------------------------------------- configuration
\* cfg.fieldKey: the six logical roles of the custom fields.
GitHubID == "GitHubID"
GitHubNumber == "GitHubNumber"
GitHubLabels == "GitHubLabels"
GitHubStatus == "GitHubStatus"
GitHubReporter == "GitHubReporter"
LastISUpdate == "LastISUpdate"

FieldKeys == <<GitHubID, GitHubNumber, GitHubLabels, GitHubStatus, GitHubReporter, LastISUpdate>>

\* The name under which getFieldIDs looks a role up in the field metadata.
FieldName(key) ==
    CASE key = GitHubID -> "GitHub ID"
      [] key = GitHubNumber -> "GitHub Number"
      [] key = GitHubLabels -> "GitHub Labels"
      [] key = GitHubStatus -> "GitHub Status"
      [] key = GitHubReporter -> "GitHub Reporter"
      [] key = LastISUpdate -> "Last Issue-Sync Update"

\* fmt.Sprint of a non-negative int: its decimal digits.
DecimalDigit(d) ==
    CASE d = 0 -> "0" [] d = 1 -> "1" [] d = 2 -> "2" [] d = 3 -> "3" [] d = 4 -> "4"
      [] d = 5 -> "5" [] d = 6 -> "6" [] d = 7 -> "7" [] d = 8 -> "8" [] d = 9 -> "9"

RECURSIVE Sprint(_)
Sprint(n) == IF n < 10 THEN DecimalDigit(n) ELSE Sprint(n \div 10) \o DecimalDigit(n % 10)

\* The field metadata of the destination (GET /rest/api/2/field): the custom
\* fields it defines, as jiraField records (Name, Schema.CustomID).
JiraFieldOf(k) == [Name |-> FieldName(FieldKeys[k]), CustomID |-> 10000 + k]

\* The customfield_XXXXX key under which the destination stores a role.
StoreKey(key) ==
    LET k == CHOOSE j \in 1..Len(FieldKeys) : FieldKeys[j] = key
    IN  "customfield_" \o Sprint(JiraFieldOf(k).CustomID)

\* The metadata answers the run may get: every field defined, or one missing.
FieldMetadata ==
    { [k \in ((1..Len(FieldKeys)) \ miss) |-> JiraFieldOf(k)] :
        miss \in {{}} \cup {{k} : k \in 1..Len(FieldKeys)} }

\* getFieldIDs: the loop over the metadata (the last field of a name wins)
\* and the chain of checks naming the first role that was not found.
FieldIDOf(jFields, key) ==
    LET hits == {k \in DOMAIN jFields : jFields[k].Name = FieldName(key)}
    IN  IF hits = {} THEN ""
        ELSE Sprint(jFields[CHOOSE k \in hits : \A j \in hits : j <= k].CustomID)

getFieldIDs(jFields) ==
    LET ids == [key \in {FieldKeys[k] : k \in 1..Len(FieldKeys)} |-> FieldIDOf(jFields, key)]
        order == <<GitHubID, GitHubNumber, GitHubLabels, GitHubStatus, GitHubReporter, LastISUpdate>>
        missing == {k \in 1..Len(order) : ids[order[k]] = ""}
    IN  [fieldIDs |-> ids,
         err |-> IF missing = {} THEN Nil
                 ELSE order[CHOOSE k \in missing : \A j \in missing : k <= j]]

\* Config.GetFieldID and Config.GetFieldKey on the resolved table.
GetFieldID(ids, key) == IF key \in DOMAIN ids THEN ids[key] ELSE ""

GetFieldKey(ids, key) == "customfield_" \o GetFieldID(ids, key)


\* ---------------------------------------------------------------- texts
\* strings.Join(strs, sep).
RECURSIVE Join(_, _)
Join(strs, sep) ==
    IF Len(strs) = 0 THEN ""
    ELSE IF Len(strs) = 1 THEN strs[1]
    ELSE strs[1] \o sep \o Join(Tail(strs), sep)

\* Character classes of Go's regexp (RE2) syntax: \w, \d and \s.
DigitChars == {"0", "1", "2", "3", "4", "5", "6", "7", "8", "9"}

WordChars ==
    DigitChars \cup {"_"} \cup
    {"a", "b", "c", "d", "e", "f", "g", "h", "i", "j", "k", "l", "m",
     "n", "o", "p", "q", "r", "s", "t", "u", "v", "w", "x", "y", "z",
     "A", "B", "C", "D", "E", "F", "G", "H", "I", "J", "K", "L", "M",
     "N", "O", "P", "Q", "R", "S", "T", "U", "V", "W", "X", "Y", "Z"}

SpaceChars == {" ", "\t", "\n", "\f", "\r"}

MinOf(S) == CHOOSE x \in S : \A y \in S : x <= y

\* The literal lit occurs in s at position i.
HasAt(s, i, lit) ==
    /\ i >= 1
    /\ i + Len(lit) - 1 <= Len(s)
    /\ \A k \in 1..Len(lit) : s[i + k - 1] = lit[k]

\* The first position >= i at which lit occurs in s; 0 when there is none.
IndexFrom(s, i, lit) ==
    LET J == {j \in i..(Len(s) - Len(lit) + 1) : HasAt(s, j, lit)}
    IN  IF J = {} THEN 0 ELSE MinOf(J)

\* (?m)^ holds at position i; the end (exclusive) of the line that holds i.
IsLineStart(s, i) == i = 1 \/ (i >= 2 /\ i - 1 <= Len(s) /\ s[i - 1] = "\n")

LineEnd(s, i) == MinOf({j \in i..(Len(s) + 1) : j = Len(s) + 1 \/ s[j] = "\n"})

\* The first position >= i of s that holds no character of the class.
SkipClass(s, i, class) == MinOf({j \in i..(Len(s) + 1) : j = Len(s) + 1 \/ s[j] \notin class})

\* The decimal value of a sequence of digits.
RECURSIVE DigitsValue(_)
DigitsValue(ds) ==
    IF Len(ds) = 0 THEN 0
    ELSE 10 * DigitsValue(SubSeq(ds, 1, Len(ds) - 1))
         + (CHOOSE d \in 0..9 : DecimalDigit(d) = ds[Len(ds)])

\* Regexp.ReplaceAllString's template expansion: $name takes the longest
\* run of letters, digits and underscores; a name that is no index of a
\* group of the pattern (no pattern here names a group) expands to nothing;
\* $$ is a dollar sign and a $ that starts no name stays as it is.
RECURSIVE Expand(_, _)
Expand(template, groups) ==
    IF Len(template) = 0 THEN <<>>
    ELSE IF template[1] # "$" THEN <<template[1]>> \o Expand(Tail(template), groups)
    ELSE IF HasAt(template, 2, <<"$">>) THEN <<"$">> \o Expand(SubSeq(template, 3, Len(template)), groups)
    ELSE LET e == SkipClass(template, 2, WordChars)
             name == SubSeq(template, 2, e - 1)
             isIndex == \A k \in 1..Len(name) : name[k] \in DigitChars
             value == IF isIndex /\ DigitsValue(name) \in 1..Len(groups)
                      THEN groups[DigitsValue(name)]
                      ELSE <<>>
         IN  IF Len(name) = 0
             THEN <<"$">> \o Expand(Tail(template), groups)
             ELSE value \o Expand(SubSeq(template, e, Len(template)), groups)

\* ReplaceAllString for a heading pattern (multi-line mode: line start, the
\* prefix, the rest of the line as group 1, line end): every line that
\* starts with the prefix is rewritten by the template.
RECURSIVE ReplaceLines(_, _, _, _)
ReplaceLines(s, i, prefix, template) ==
    IF i > Len(s) THEN <<>>
    ELSE LET e == LineEnd(s, i)
             line == SubSeq(s, i, e - 1)
             out == IF HasAt(line, 1, prefix)
                    THEN Expand(template, <<SubSeq(line, Len(prefix) + 1, Len(line))>>)
                    ELSE line
         IN  IF e > Len(s) THEN out
             ELSE out \o <<"\n">> \o ReplaceLines(s, e + 1, prefix, template)

\* ReplaceAllString for an ungreedy pattern "open, any characters as group
\* 1, close"; the characters may be line breaks (dotall) or not. Leftmost
\* match first, the shortest content, matches do not overlap.
RECURSIVE ReplaceSpans(_, _, _, _, _, _)
ReplaceSpans(s, i, open, close, template, dotall) ==
    LET o == IndexFrom(s, i, open)
        c == IF o = 0 THEN 0 ELSE IndexFrom(s, o + Len(open), close)
        content == SubSeq(s, o + Len(open), c - 1)
    IN  IF o = 0 \/ c = 0 THEN SubSeq(s, i, Len(s))
        ELSE IF ~dotall /\ \E k \in 1..Len(content) : content[k] = "\n"
        THEN SubSeq(s, i, o) \o ReplaceSpans(s, o + 1, open, close, template, dotall)
        ELSE SubSeq(s, i, o - 1) \o Expand(template, <<content>>)
             \o ReplaceSpans(s, c + Len(close), open, close, template, dotall)

\* ReplaceAllString for "open, exactly one character as group 1, close".
RECURSIVE ReplaceOneChar(_, _, _, _, _)
ReplaceOneChar(s, i, open, close, template) ==
    LET J == {j \in i..Len(s) : HasAt(s, j, open) /\ HasAt(s, j + Len(open) + 1, close)}
        o == MinOf(J)
    IN  IF J = {} THEN SubSeq(s, i, Len(s))
        ELSE SubSeq(s, i, o - 1) \o Expand(template, <<<<s[o + Len(open)]>>>>)
             \o ReplaceOneChar(s, o + Len(open) + 1 + Len(close), open, close, template)

\* ReplaceAllString for an ungreedy pattern "open, group 1, mid, group 2,
\* close", no line break in a group.
RECURSIVE ReplacePairs(_, _, _, _, _, _)
ReplacePairs(s, i, open, mid, close, template) ==
    LET o == IndexFrom(s, i, open)
        m == IF o = 0 THEN 0 ELSE IndexFrom(s, o + Len(open), mid)
        c == IF m = 0 THEN 0 ELSE IndexFrom(s, m + Len(mid), close)
        first == SubSeq(s, o + Len(open), m - 1)
        second == SubSeq(s, m + Len(mid), c - 1)
    IN  IF o = 0 \/ m = 0 \/ c = 0 THEN SubSeq(s, i, Len(s))
        ELSE IF \E k \in (o + Len(open))..(c - 1) : s[k] = "\n"
        THEN SubSeq(s, i, o) \o ReplacePairs(s, o + 1, open, mid, close, template)
        ELSE SubSeq(s, i, o - 1) \o Expand(template, <<first, second>>)
             \o ReplacePairs(s, c + Len(close), open, mid, close, template)

\* ReplaceAllString for the quote pattern (line start, the mark, one or more
\* white-space characters, the rest of the line as group 1): the white space
\* may run over line breaks; group 1 is the rest of the line where it ends.
RECURSIVE ReplaceQuotes(_, _, _)
ReplaceQuotes(s, i, template) ==
    IF i > Len(s) THEN <<>>
    ELSE IF IsLineStart(s, i) /\ s[i] = ">" /\ i + 1 <= Len(s) /\ s[i + 1] \in SpaceChars
    THEN LET w == SkipClass(s, i + 1, SpaceChars)
             e == LineEnd(s, w)
         IN  Expand(template, <<SubSeq(s, w, e - 1)>>) \o ReplaceQuotes(s, e, template)
    ELSE <<s[i]>> \o ReplaceQuotes(s, i + 1, template)

\* The backquote character (the lexer of TLA+ accepts none in a string).
Backquote == "<backquote>"

Fence == <<Backquote, Backquote, Backquote>>

\* ReplaceAllString for the fenced blocks: a line made of the fence and a
\* tag of word characters (tagged: groups 1 and 2) or of the fence alone
\* (one group), a line break, the shortest content, a line break, the fence.
RECURSIVE ReplaceFences(_, _, _, _)
ReplaceFences(s, i, tagged, template) ==
    IF i > Len(s) THEN <<>>
    ELSE LET t == i + Len(Fence)
             e == IF t <= Len(s) + 1 THEN LineEnd(s, t) ELSE 0
             tag == SubSeq(s, t, e - 1)
             opens == /\ IsLineStart(s, i)
                      /\ HasAt(s, i, Fence)
                      /\ e <= Len(s)
                      /\ \A k \in 1..Len(tag) : tag[k] \in WordChars
                      /\ (Len(tag) > 0) = tagged
             c == IF opens THEN IndexFrom(s, e + 1, <<"\n">> \o Fence) ELSE 0
         IN  IF opens /\ c # 0
             THEN Expand(template, IF tagged THEN <<tag, SubSeq(s, e + 1, c - 1)>>
                                   ELSE <<SubSeq(s, e + 1, c - 1)>>)
                  \o ReplaceFences(s, c + 1 + Len(Fence), tagged, template)
             ELSE <<s[i]>> \o ReplaceFences(s, i + 1, tagged, template)

\* ------------------------------------------------------ markup translator
\* The patterns of lib/issues.go, each as the ReplaceAllString it is used in
\* (pattern and replacement template).
regexH6(body) == ReplaceLines(body, 1, <<"#", "#", "#", "#", "#", "#", " ">>, <<"h", "6", ".", " ", "$", "1">>)

regexH5(body) == ReplaceLines(body, 1, <<"#", "#", "#", "#", "#", " ">>, <<"h", "5", ".", " ", "$", "1">>)

\* A level-4 rule that writes its own level.
regexH4_OwnLevel(body) == ReplaceLines(body, 1, <<"#", "#", "#", "#", " ">>, <<"h", "4", ".", " ", "$", "1">>)

regexH4(body) == ReplaceLines(body, 1, <<"#", "#", "#", "#", " ">>, <<"h", "3", ".", " ", "$", "1">>)

regexH3(body) == ReplaceLines(body, 1, <<"#", "#", "#", " ">>, <<"h", "3", ".", " ", "$", "1">>)

regexH2(body) == ReplaceLines(body, 1, <<"#", "#", " ">>, <<"h", "2", ".", " ", "$", "1">>)

regexH1(body) == ReplaceLines(body, 1, <<"#", " ">>, <<"h", "1", ".", " ", "$", "1">>)

regexStrong1(body) == ReplaceSpans(body, 1, <<"*", "*">>, <<"*", "*">>, <<"*", "$", "1", "*">>, TRUE)

regexStrong2(body) == ReplaceSpans(body, 1, <<"_", "_">>, <<"_", "_">>, <<"*", "$", "1", "*">>, TRUE)

regexEmphasis1(body) == ReplaceSpans(body, 1, <<"*">>, <<"*">>, <<"_", "$", "1", "_">>, TRUE)

regexEmphasis2(body) == ReplaceSpans(body, 1, <<"_">>, <<"_">>, <<"_", "$", "1", "_">>, TRUE)

regexCitation(body) == ReplaceSpans(body, 1, <<"<", "c", "i", "t", "e", ">">>, <<"<", "c", "i", "t", "e", ">">>, <<"?", "?", "$", "1", "?", "?">>, TRUE)

regexDeleted(body) == ReplaceOneChar(body, 1, <<"~", "~">>, <<"~", "~">>, <<"-", "$", "1", "-">>)

regexInserted(body) == ReplaceSpans(body, 1, <<"<", "i", "n", "s", ">">>, <<"<", "i", "n", "s", ">">>, <<"+", "$", "1", "+">>, TRUE)

regexSuperscript(body) == ReplaceSpans(body, 1, <<"<", "s", "u", "p", ">">>, <<"<", "s", "u", "p", ">">>, <<"^", "$", "1", "^">>, TRUE)

regexSubscript(body) == ReplaceSpans(body, 1, <<"<", "s", "u", "b", ">">>, <<"<", "s", "u", "b", ">">>, <<"~", "$", "1", "~">>, TRUE)

regexMonospaced(body) == ReplaceSpans(body, 1, <<Backquote>>, <<Backquote>>, <<"{", "{", "$", "1", "}", "}">>, TRUE)

regexQuote(body) == ReplaceQuotes(body, 1, <<"b", "q", ".", " ", "$", "1">>)

regexImage(body) == ReplacePairs(body, 1, <<"!", "[">>, <<"]", "(">>, <<")">>, <<"!", "$", "2", "|", "w", "i", "d", "t", "h", "=", "6", "0", "0", "!">>)

regexURL(body) == ReplaceSpans(body, 1, <<"<">>, <<">">>, <<"[", "$", "1", "]">>, FALSE)

regexAltURL(body) == ReplacePairs(body, 1, <<"[">>, <<"]", "(">>, <<")">>, <<"[", "$", "1", "|", "$", "2", "]">>)

\* The templates of the two block rules are raw strings: their \n is a
\* backslash and the letter n.
regexCode(body) ==
    ReplaceFences(body, 1, TRUE, <<"{", "c", "o", "d", "e", ":", "$", "1", "}", "\\", "n", "$", "2", "\\", "n", "{", "c", "o", "d", "e", "}">>)

regexNoFormat(body) ==
    ReplaceFences(body, 1, FALSE,
        <<"{", "n", "o", "f", "o", "r", "m", "a", "t", "}", "\\", "n", "$", "2", "\\", "n", "{", "n", "o", "f", "o", "r", "m", "a", "t", "}">>)

\* GitHubToJiraBody: the rules in the order of the source.
Headings(body) == regexH1(regexH2(regexH3(regexH4(regexH5(regexH6(body))))))

TextEffects(body) ==
    regexQuote(regexMonospaced(regexSubscript(regexSuperscript(regexInserted(
    regexDeleted(regexCitation(regexEmphasis2(regexEmphasis1(regexStrong2(
    regexStrong1(body)))))))))))

Links(body) == regexAltURL(regexURL(regexImage(body)))

AdvancedFormatting(body) == regexNoFormat(regexCode(body))

GitHubToJiraBody(body) == AdvancedFormatting(Links(TextEffects(Headings(body))))

\* ------------------------------------------------------------ issue data
\* A value of the destination's open-ended field map (Fields.Unknowns).
Str(v) == [kind |-> "string", s |-> v]

Num(v) == [kind |-> "number", n |-> v]

EmptyMap == [k \in {} |-> Nil]

\* m[key] = value of a Go map.
Put(m, key, value) == [k \in (DOMAIN m) \cup {key} |-> IF k = key THEN value ELSE m[k]]

\* Unknowns.String(key) and Unknowns.Int(key): the value and whether the
\* read failed (the key is not set, or its value is of another type); a
\* failed read returns the zero value.
UnknownsString(m, key) ==
    IF key \in DOMAIN m /\ m[key].kind = "string"
    THEN [val |-> m[key].s, err |-> FALSE]
    ELSE [val |-> "", err |-> TRUE]

UnknownsInt(m, key) ==
    IF key \in DOMAIN m /\ m[key].kind = "number"
    THEN [val |-> m[key].n, err |-> FALSE]
    ELSE [val |-> 0, err |-> TRUE]

\* The label names of a source issue, in the order the issue lists them.
LabelNames(ghIssue) == ghIssue.Labels

\* The body texts of the source issues of the model: a heading, a strong
\* span, plain words.
BodyOf(id) ==
    IF id = 1 THEN <<"#", "#", "#", "#", " ", "a">>
    ELSE IF id = 2 THEN <<"*", "*", "a", "*", "*">>
    ELSE <<"a", " ", "b">>

\* GitHubToJiraBody on the body texts of the model, applied once per text.
TranslatedBodies == [body \in {BodyOf(id) : id \in 1..MaxIssues} |-> GitHubToJiraBody(body)]

\* NewTranslatedIssue dereferences issue.Body: a nil body is a nil-pointer
\* panic; otherwise the issue is paired with its translated body.
NewTranslatedIssuePanics(issue) == issue.Body = NilPtr

NewTranslatedIssue(issue) ==
    [Issue |-> issue, TranslatedBody |-> TranslatedBodies[Deref(issue.Body)]]

GetTranslatedBody(ghIssue) == ghIssue.TranslatedBody

\* DidIssueChange that takes a reporter field it cannot read for a match.
DidIssueChange_ReporterReadOrNot(ids, ghIssue, jIssue) ==
    LET state == UnknownsString(jIssue.Unknowns, GetFieldKey(ids, GitHubStatus))
        reporter == UnknownsString(jIssue.Unknowns, GetFieldKey(ids, GitHubReporter))
        labels == UnknownsString(jIssue.Unknowns, GetFieldKey(ids, GitHubLabels))
    IN  \/ ghIssue.Issue.Title # jIssue.Summary
        \/ GetTranslatedBody(ghIssue) # jIssue.Description
        \/ state.err \/ ghIssue.Issue.State # state.val
        \/ (~reporter.err /\ ghIssue.Issue.Login # reporter.val)
        \/ (labels.err /\ Join(LabelNames(ghIssue.Issue), ",") # labels.val)

\* DidIssueChange whose labels test is "cannot be read OR differs".
DidIssueChange_LabelsOr(ids, ghIssue, jIssue) ==
    LET state == UnknownsString(jIssue.Unknowns, GetFieldKey(ids, GitHubStatus))
        reporter == UnknownsString(jIssue.Unknowns, GetFieldKey(ids, GitHubReporter))
        labels == UnknownsString(jIssue.Unknowns, GetFieldKey(ids, GitHubLabels))
    IN  \/ ghIssue.Issue.Title # jIssue.Summary
        \/ GetTranslatedBody(ghIssue) # jIssue.Description
        \/ state.err \/ ghIssue.Issue.State # state.val
        \/ reporter.err \/ ghIssue.Issue.Login # reporter.val
        \/ labels.err \/ Join(LabelNames(ghIssue.Issue), ",") # labels.val

\* DidIssueChange: summary, description, state and reporter differ, or the
\* field cannot be read; labels: the field cannot be read and differs.
DidIssueChange(ids, ghIssue, jIssue) ==
    LET state == UnknownsString(jIssue.Unknowns, GetFieldKey(ids, GitHubStatus))
        reporter == UnknownsString(jIssue.Unknowns, GetFieldKey(ids, GitHubReporter))
        labels == UnknownsString(jIssue.Unknowns, GetFieldKey(ids, GitHubLabels))
    IN  \/ ghIssue.Issue.Title # jIssue.Summary
        \/ GetTranslatedBody(ghIssue) # jIssue.Description
        \/ state.err \/ ghIssue.Issue.State # state.val
        \/ reporter.err \/ ghIssue.Issue.Login # reporter.val
        \/ (labels.err /\ Join(LabelNames(ghIssue.Issue), ",") # labels.val)

\* time.Now().UTC().Format(dateFormat) of lib/issues.go, the instant being a
\* count of seconds: one digit of fraction, the zone of UTC.
FormatLastUpdate(t) == Sprint(t) \o ".0+0000"

\* An update payload that also sets the GitHub ID field, as a create does.
UpdatePayload_WithGitHubID(ids, ghIssue, jIssue, t) ==
    LET u1 == Put(EmptyMap, GetFieldKey(ids, GitHubID), Num(ghIssue.Issue.ID))
        u2 == Put(u1, GetFieldKey(ids, GitHubStatus), Str(ghIssue.Issue.State))
        u3 == Put(u2, GetFieldKey(ids, GitHubReporter), Str(ghIssue.Issue.Login))
        u4 == Put(u3, GetFieldKey(ids, GitHubLabels), Str(Join(LabelNames(ghIssue.Issue), ",")))
        u5 == Put(u4, GetFieldKey(ids, LastISUpdate), Str(FormatLastUpdate(t)))
    IN  [Key |-> jIssue.Key, ID |-> jIssue.ID, Type |-> jIssue.Type, Project |-> "",
         Summary |-> ghIssue.Issue.Title, Description |-> GetTranslatedBody(ghIssue),
         Unknowns |-> u5]

\* The issue UpdateIssue submits for a linked destination issue.
UpdatePayload(ids, ghIssue, jIssue, t) ==
    LET u1 == Put(EmptyMap, GetFieldKey(ids, GitHubStatus), Str(ghIssue.Issue.State))
        u2 == Put(u1, GetFieldKey(ids, GitHubReporter), Str(ghIssue.Issue.Login))
        u3 == Put(u2, GetFieldKey(ids, GitHubLabels), Str(Join(LabelNames(ghIssue.Issue), ",")))
        u4 == Put(u3, GetFieldKey(ids, LastISUpdate), Str(FormatLastUpdate(t)))
    IN  [Key |-> jIssue.Key, ID |-> jIssue.ID, Type |-> jIssue.Type, Project |-> "",
         Summary |-> ghIssue.Issue.Title, Description |-> GetTranslatedBody(ghIssue),
         Unknowns |-> u4]

\* The issue CreateIssue submits for a source issue that has no link.
CreatePayload(ids, ghIssue, project, t) ==
    LET u1 == Put(EmptyMap, GetFieldKey(ids, GitHubID), Num(ghIssue.Issue.ID))
        u2 == Put(u1, GetFieldKey(ids, GitHubNumber), Num(ghIssue.Issue.Number))
        u3 == Put(u2, GetFieldKey(ids, GitHubStatus), Str(ghIssue.Issue.State))
        u4 == Put(u3, GetFieldKey(ids, GitHubReporter), Str(ghIssue.Issue.Login))
        u5 == Put(u4, GetFieldKey(ids, GitHubLabels), Str(Join(LabelNames(ghIssue.Issue), ",")))
        u6 == Put(u5, GetFieldKey(ids, LastISUpdate), Str(FormatLastUpdate(t)))
    IN  [Key |-> "", ID |-> "", Type |-> "Task", Project |-> project,
         Summary |-> ghIssue.Issue.Title, Description |-> GetTranslatedBody(ghIssue),
         Unknowns |-> u6]

\* The scan of CompareIssues: the positions of the fetched destination issues
\* whose GitHub ID field, read as an integer, is the source issue's id.
LinkedAt(ids, ghIssue, jiraIssues) ==
    {k \in 1..Len(jiraIssues) :
        UnknownsInt(jiraIssues[k].Unknowns, GetFieldKey(ids, GitHubID)).val = ghIssue.ID}

\* A scan without the break: the last linked issue is the one handed on.
FirstLinked_Last(ids, ghIssue, jiraIssues) ==
    jiraIssues[CHOOSE k \in LinkedAt(ids, ghIssue, jiraIssues) :
                  \A j \in LinkedAt(ids, ghIssue, jiraIssues) : j <= k]

\* The destination issue the scan hands to UpdateIssue: the first one linked.
FirstLinked(ids, ghIssue, jiraIssues) == jiraIssues[MinOf(LinkedAt(ids, ghIssue, jiraIssues))]

\* ----------------------------------------------------------- environment
\* The configured repository/project pairs (the "projects" of the file).
RepoName(k) == "org/repo" \o Sprint(k)

ProjectKey(repo) == "PRJ:" \o repo

ConfiguredRepos == [k \in 1..MaxRepos |-> RepoName(k)]

\* The source issues a listing may return: id, number, title, body (nil, or
\* the text BodyOf(id)), state, author and labels.
MkIssue(id, body) ==
    [ID |-> id, Number |-> 10 + id, Title |-> "issue " \o Sprint(id), Body |-> body,
     State |-> IF id % 2 = 1 THEN "open" ELSE "closed",
     Login |-> "user" \o Sprint(id),
     Labels |-> IF id % 2 = 1 THEN <<"bug", "ui">> ELSE <<>>]

SourceIssues(id) == {MkIssue(id, body) : body \in {NilPtr, Ptr(BodyOf(id))}}

\* The sequences of n issues with pairwise distinct ids.
RECURSIVE IssueListsOf(_)
IssueListsOf(n) ==
    IF n = 0 THEN {<<>>}
    ELSE {Append(l, i) : l \in IssueListsOf(n - 1), i \in UNION {SourceIssues(id) : id \in 1..MaxIssues}}

SourceLists ==
    {l \in UNION {IssueListsOf(n) : n \in 0..MaxIssues} :
        \A a, b \in 1..Len(l) : a # b => l[a].ID # l[b].ID}

\* The field table of a run that resolved every role.
ResolvedFieldIDs == getFieldIDs([k \in 1..Len(FieldKeys) |-> JiraFieldOf(k)]).fieldIDs

\* The destination issues a project may hold when a pass starts: issues an
\* earlier run created for a source issue, still as created, edited since
\* in the destination (another summary, another issue type), or created
\* when the source issue carried another label.
IssueKey(n) == "J-" \o Sprint(n)

Edits == {"none", "summary", "labels"}

StoredIssue(n, id, edit) ==
    LET created == CreatePayload(ResolvedFieldIDs, NewTranslatedIssue(MkIssue(id, Ptr(BodyOf(id)))), "", 0)
    IN  [created EXCEPT !.Key = IssueKey(n), !.ID = Sprint(n),
                        !.Summary = IF edit = "summary" THEN "edited" ELSE @,
                        !.Type = IF edit = "summary" THEN "Bug" ELSE @,
                        !.Unknowns = IF edit = "labels"
                                     THEN Put(@, StoreKey(GitHubLabels), Str("old"))
                                     ELSE @]

RECURSIVE StoresOf(_)
StoresOf(n) ==
    IF n = 0 THEN {<<>>}
    ELSE {Append(st, StoredIssue(n, id, edit)) :
            st \in StoresOf(n - 1), id \in 1..MaxIssues, edit \in Edits}

JiraStores == UNION {StoresOf(n) : n \in 0..MaxJira}

\* The destination tracker client (lib/clients, not part of the sources):
\* ListIssues returns the stored issues whose GitHub ID field holds one of
\* the ids; CreateIssue stores the issue under a fresh key; UpdateIssue
\* overwrites the fields the payload names; GetIssue reads by key.
JiraListIssues(store, ids, idList) ==
    LET key == GetFieldKey(ids, GitHubID)
    IN  SelectSeq(store, LAMBDA j :
            /\ ~UnknownsInt(j.Unknowns, key).err
            /\ \E k \in 1..Len(idList) : idList[k] = UnknownsInt(j.Unknowns, key).val)

JiraCreateIssue(store, payload) ==
    Append(store, [payload EXCEPT !.Key = IssueKey(Len(store) + 1), !.ID = Sprint(Len(store) + 1)])

JiraUpdateIssue(store, payload) ==
    [k \in 1..Len(store) |->
        IF store[k].Key # payload.Key THEN store[k]
        ELSE [store[k] EXCEPT
                !.Summary = payload.Summary,
                !.Description = payload.Description,
                !.Unknowns = [f \in (DOMAIN @) \cup (DOMAIN payload.Unknowns) |->
                                IF f \in DOMAIN payload.Unknowns THEN payload.Unknowns[f] ELSE @[f]]]]

JiraGetIssue(store, key) == store[CHOOSE k \in 1..Len(store) : store[k].Key = key]

\* ------------------------------------------------------------------ state
VARIABLES
    pc,          \* where RunE stands: "start", "period", "repos", "collect",
                 \* "loop", "saved", "done" (returned nil), "failed" (returned
                 \* an error), "panic" (the process died)
    fieldIDs,    \* Config.fieldIDs: role -> custom field id ("" when unset)
    configErr,   \* what LoadJIRAConfig returned (RunE does not read it)
    projects,    \* Config.projects: the repositories whose project was loaded
    queue,       \* the repositories the range of this period has yet to visit
    repo,        \* the repository of the current pass
    period,      \* the number of periods begun
    now,         \* the clock
    savedSince,  \* the `since` value of the saved configuration file
    runErr,      \* the error RunE returned, Nil when none
    passes,      \* the passes begun: repository, period, what the pass returned
    ghIssues,    \* CompareIssues: the fetched source issues
    jiraIssues,  \* CompareIssues: the fetched destination issues
    idx,         \* CompareIssues: the position of the range over ghIssues
    calls,       \* the tracker calls and error logs of the current pass
    jira,        \* the issues the destination project of the pass holds
    diff,        \* one call of DidIssueChange: its arguments and its result
    translation  \* one call of GitHubToJiraBody: its argument and its result

vars == <<pc, fieldIDs, configErr, projects, queue, repo, period, now, savedSince,
          runErr, passes, ghIssues, jiraIssues, idx, calls, jira, diff, translation>>

runVars == <<fieldIDs, configErr, projects, period, savedSince, diff, translation>>

passVars == <<ghIssues, jiraIssues, idx, calls, jira>>

\* The zero value of jira.Issue.
NoIssue ==
    [Key |-> "", ID |-> "", Type |-> "", Project |-> "", Summary |-> "", Description |-> <<>>,
     Unknowns |-> EmptyMap]

\* An entry of calls. gh is the id of the source issue the call is made for
\* (0 for the listings), key the destination key, payload the written issue.
Call(op, gh, key, ok, payload) == [op |-> op, gh |-> gh, key |-> key, ok |-> ok, payload |-> payload]

NoFieldIDs == [key \in {FieldKeys[k] : k \in 1..Len(FieldKeys)} |-> ""]

Init ==
    /\ pc = "start"
    /\ fieldIDs = NoFieldIDs
    /\ configErr = Nil
    /\ projects = <<>>
    /\ queue = <<>>
    /\ repo = Nil
    /\ period = 0
    /\ now = 1
    /\ savedSince = 0
    /\ runErr = Nil
    /\ passes = <<>>
    /\ ghIssues = <<>>
    /\ jiraIssues = <<>>
    /\ idx = 0
    /\ calls = <<>>
    /\ jira = <<>>
    /\ diff = <<>>
    /\ translation = <<>>

\* ------------------------------------------------------------------- RunE
\* NewConfig or the first NewJIRAClient fails: RunE returns the error.
ConfigInvalid ==
    /\ pc = "start"
    /\ pc' = "failed"
    /\ runErr' = "config"
    /\ UNCHANGED <<runVars, queue, repo, now, passes, passVars>>

\* LoadJIRAConfig: the project of every configured pair is fetched, then the
\* field table is resolved. A failure returns at once; the assignment of
\* c.fieldIDs is made whether getFieldIDs failed or not. RunE calls it as a
\* statement and goes on to the loop whatever it returned.
LoadJIRAConfig ==
    /\ pc = "start"
    /\ \/ \E k \in 1..MaxRepos :
            /\ projects' = SubSeq(ConfiguredRepos, 1, k - 1)
            /\ fieldIDs' = fieldIDs
            /\ configErr' = "project"
       \/ /\ projects' = ConfiguredRepos
          /\ fieldIDs' = NoFieldIDs
          /\ configErr' = "request"
       \/ \E jFields \in FieldMetadata :
            /\ projects' = ConfiguredRepos
            /\ fieldIDs' = getFieldIDs(jFields).fieldIDs
            /\ configErr' = getFieldIDs(jFields).err
    /\ pc' = "period"
    /\ UNCHANGED <<queue, repo, period, now, savedSince, runErr, passes, passVars, diff, translation>>

\* The orders in which a range over the map of projects may visit its keys.
RepoOrders(ps) ==
    {o \in [1..Len(ps) -> {ps[k] : k \in 1..Len(ps)}] :
        \A a, b \in 1..Len(ps) : a # b => o[a] # o[b]}

\* The head of the outer loop: GetRepoList.
BeginPeriod ==
    /\ pc = "period"
    /\ period < MaxPeriods
    /\ period' = period + 1
    /\ \E o \in RepoOrders(projects) : queue' = o
    /\ pc' = "repos"
    /\ UNCHANGED <<fieldIDs, configErr, projects, repo, now, savedSince, runErr, passes, passVars, diff, translation>>

\* The body of the range: the two clients of the repository are made; a
\* failure of either makes RunE return the error.
StartPass ==
    /\ pc = "repos"
    /\ queue # <<>>
    /\ repo' = Head(queue)
    /\ queue' = Tail(queue)
    /\ ghIssues' = <<>>
    /\ jiraIssues' = <<>>
    /\ idx' = 0
    /\ calls' = <<>>
    /\ jira' = <<>>
    /\ \/ pc' = "collect" /\ runErr' = runErr
       \/ pc' = "failed" /\ runErr' = "client"
    /\ UNCHANGED <<runVars, now, passes>>

\* A range that stops the pass with the error when a re-fetch failed.
AfterIssue_ReturnRefetchError(err) == IF err = "get" THEN "failed" ELSE "loop"

\* A RunE that logs what CompareIssues returned and takes the next repository.
AfterPass_LogAndGoOn(err) == "repos"

\* A test of the fetched source issues that never finds the list empty.
NoGitHubIssues_Never(issues) == FALSE

\* ---------------------------------------------------------- CompareIssues
\* What the pass does after UpdateIssue or CreateIssue returned err for one
\* issue: the error is logged and the range goes on, whatever the error.
AfterIssue(err) == "loop"

\* What RunE does with the value CompareIssues returned.
AfterPass(err) == IF err = Nil THEN "repos" ELSE "failed"

SetReturn(ps, ret) == [ps EXCEPT ![Len(ps)].ret = ret]

\* The id list the destination listing is filtered by.
IDList(issues) == [k \in 1..Len(issues) |-> issues[k].ID]

\* The test of CompareIssues on the fetched source issues: none is a
\* success without more work.
NoGitHubIssues(issues) == Len(issues) = 0

\* CompareIssues up to the range: the source listing (an error is returned;
\* an empty list returns nil), then the destination listing for the ids of
\* the source issues (an error is returned).
CollectIssues ==
    /\ pc = "collect"
    /\ now' = now + 1
    /\ LET begun == Append(passes, [repo |-> repo, period |-> period, listedAt |-> now, ret |-> "running"])
       IN
       \/ /\ calls' = <<Call("gh.ListIssues", 0, "", FALSE, NoIssue)>>
          /\ passes' = SetReturn(begun, "listGitHub")
          /\ pc' = AfterPass("listGitHub")
          /\ runErr' = IF AfterPass("listGitHub") = "failed" THEN "listGitHub" ELSE runErr
          /\ UNCHANGED <<ghIssues, jiraIssues, idx, jira>>
       \/ \E l \in SourceLists :
            /\ ghIssues' = l
            /\ IF NoGitHubIssues(l)
               THEN /\ calls' = <<Call("gh.ListIssues", 0, "", TRUE, NoIssue)>>
                    /\ passes' = SetReturn(begun, "nil")
                    /\ pc' = AfterPass(Nil)
                    /\ UNCHANGED <<runErr, jiraIssues, idx, jira>>
               ELSE \E store \in JiraStores :
                    /\ jira' = store
                    /\ \/ /\ calls' = <<Call("gh.ListIssues", 0, "", TRUE, NoIssue),
                                        Call("jira.ListIssues", 0, "", FALSE, NoIssue)>>
                          /\ passes' = SetReturn(begun, "listJira")
                          /\ pc' = AfterPass("listJira")
                          /\ runErr' = IF AfterPass("listJira") = "failed" THEN "listJira" ELSE runErr
                          /\ UNCHANGED <<jiraIssues, idx>>
                       \/ /\ calls' = <<Call("gh.ListIssues", 0, "", TRUE, NoIssue),
                                        Call("jira.ListIssues", 0, "", TRUE, NoIssue)>>
                          /\ passes' = begun
                          /\ jiraIssues' = JiraListIssues(store, fieldIDs, IDList(l))
                          /\ idx' = 1
                          /\ pc' = "loop"
                          /\ UNCHANGED runErr
    /\ UNCHANGED <<runVars, queue, repo>>

\* The ways a reconciliation of one issue may end: the write fails, the
\* re-fetch fails, the comment reconciliation fails, or nothing fails.
Outcomes == {"write", "get", "comments", "ok"}

\* An UpdateIssue that returns at once when DidIssueChange finds no change.
UpdateIssueCalls_ReturnWhenUnchanged(ids, ghIssue, jIssue, out, t) ==
    LET gh == ghIssue.Issue.ID
    IN  IF ~DidIssueChange(ids, ghIssue, jIssue) THEN <<>>
        ELSE <<Call("jira.UpdateIssue", gh, jIssue.Key, out # "write",
                    UpdatePayload(ids, ghIssue, jIssue, t))>>
             \o (IF out = "write" THEN <<>>
                 ELSE <<Call("jira.GetIssue", gh, jIssue.Key, out # "get", NoIssue)>>)
             \o (IF out \in {"write", "get"} THEN <<>>
                 ELSE <<Call("CompareComments", gh, jIssue.Key, out # "comments", NoIssue)>>)

\* The calls UpdateIssue makes for the linked pair, in order, under an
\* outcome: updateIssue only when DidIssueChange, then getIssue by the key
\* of the linked issue unless the update failed, then CompareComments
\* unless the re-fetch failed.
UpdateIssueCalls(ids, ghIssue, jIssue, out, t) ==
    LET gh == ghIssue.Issue.ID
        changed == DidIssueChange(ids, ghIssue, jIssue)
    IN  (IF changed
         THEN <<Call("jira.UpdateIssue", gh, jIssue.Key, out # "write",
                     UpdatePayload(ids, ghIssue, jIssue, t))>>
         ELSE <<>>)
        \o (IF changed /\ out = "write" THEN <<>>
            ELSE <<Call("jira.GetIssue", gh, jIssue.Key, out # "get", NoIssue)>>)
        \o (IF (changed /\ out = "write") \/ out = "get" THEN <<>>
            ELSE <<Call("CompareComments", gh, jIssue.Key, out # "comments", NoIssue)>>)

\* A CreateIssue that logs a failed re-fetch and still reconciles comments.
CreateIssueCalls_CommentsAfterFailedGet(ids, ghIssue, project, newKey, out, t) ==
    LET gh == ghIssue.Issue.ID
    IN  <<Call("jira.CreateIssue", gh, IF out = "write" THEN "" ELSE newKey, out # "write",
               CreatePayload(ids, ghIssue, project, t))>>
        \o (IF out = "write" THEN <<>>
            ELSE <<Call("jira.GetIssue", gh, newKey, out # "get", NoIssue)>>)
        \o (IF out = "write" THEN <<>>
            ELSE <<Call("CompareComments", gh, newKey, out # "comments", NoIssue)>>)

\* The calls CreateIssue makes, in order, under an outcome: createIssue,
\* then getIssue by the key of the created issue, then CompareComments.
CreateIssueCalls(ids, ghIssue, project, newKey, out, t) ==
    LET gh == ghIssue.Issue.ID
    IN  <<Call("jira.CreateIssue", gh, IF out = "write" THEN "" ELSE newKey, out # "write",
               CreatePayload(ids, ghIssue, project, t))>>
        \o (IF out = "write" THEN <<>>
            ELSE <<Call("jira.GetIssue", gh, newKey, out # "get", NoIssue)>>)
        \o (IF out \in {"write", "get"} THEN <<>>
            ELSE <<Call("CompareComments", gh, newKey, out # "comments", NoIssue)>>)

\* The error log of CompareIssues for an issue whose reconciliation failed.
ErrorLog(gh, key, out) ==
    IF out = "ok" THEN <<>> ELSE <<Call("log.Errorf", gh, key, TRUE, NoIssue)>>

\* The body of the range for a source issue that has a linked destination
\* issue: UpdateIssue on the first one linked, then the next source issue.
UpdateStep ==
    /\ pc = "loop"
    /\ idx <= Len(ghIssues)
    /\ ~NewTranslatedIssuePanics(ghIssues[idx])
    /\ LinkedAt(fieldIDs, ghIssues[idx], jiraIssues) # {}
    /\ LET ghIssue == NewTranslatedIssue(ghIssues[idx])
           jIssue == FirstLinked(fieldIDs, ghIssues[idx], jiraIssues)
           changed == DidIssueChange(fieldIDs, ghIssue, jIssue)
       IN  \E out \in Outcomes :
            /\ out = "write" => changed
            /\ calls' = calls \o UpdateIssueCalls(fieldIDs, ghIssue, jIssue, out, now)
                              \o ErrorLog(ghIssue.Issue.ID, jIssue.Key, out)
            /\ jira' = IF changed /\ out # "write"
                       THEN JiraUpdateIssue(jira, UpdatePayload(fieldIDs, ghIssue, jIssue, now))
                       ELSE jira
            /\ pc' = AfterIssue(out)
            /\ runErr' = IF AfterIssue(out) = "failed" THEN out ELSE runErr
            /\ passes' = IF AfterIssue(out) = "failed" THEN SetReturn(passes, out) ELSE passes
    /\ idx' = idx + 1
    /\ UNCHANGED <<runVars, queue, repo, now, ghIssues, jiraIssues>>

\* The body of the range for a source issue that has no linked destination
\* issue: CreateIssue, then the next source issue.
CreateStep ==
    /\ pc = "loop"
    /\ idx <= Len(ghIssues)
    /\ ~NewTranslatedIssuePanics(ghIssues[idx])
    /\ LinkedAt(fieldIDs, ghIssues[idx], jiraIssues) = {}
    /\ LET ghIssue == NewTranslatedIssue(ghIssues[idx])
           newKey == IssueKey(Len(jira) + 1)
       IN  \E out \in Outcomes :
            /\ calls' = calls \o CreateIssueCalls(fieldIDs, ghIssue, ProjectKey(repo), newKey, out, now)
                              \o ErrorLog(ghIssue.Issue.ID, "", out)
            /\ jira' = IF out # "write"
                       THEN JiraCreateIssue(jira, CreatePayload(fieldIDs, ghIssue, ProjectKey(repo), now))
                       ELSE jira
            /\ pc' = AfterIssue(out)
            /\ runErr' = IF AfterIssue(out) = "failed" THEN out ELSE runErr
            /\ passes' = IF AfterIssue(out) = "failed" THEN SetReturn(passes, out) ELSE passes
    /\ idx' = idx + 1
    /\ UNCHANGED <<runVars, queue, repo, now, ghIssues, jiraIssues>>

\* The body of the range for a source issue whose body is nil: the
\* dereference in NewTranslatedIssue panics and the process dies.
TranslatePanic ==
    /\ pc = "loop"
    /\ idx <= Len(ghIssues)
    /\ NewTranslatedIssuePanics(ghIssues[idx])
    /\ pc' = "panic"
    /\ passes' = SetReturn(passes, "panic")
    /\ UNCHANGED <<runVars, queue, repo, now, runErr, passVars>>

\* The range is over: CompareIssues returns nil, its locals are gone, and
\* RunE takes the next repository.
EndPass ==
    /\ pc = "loop"
    /\ idx > Len(ghIssues)
    /\ passes' = SetReturn(passes, "nil")
    /\ pc' = AfterPass(Nil)
    /\ ghIssues' = <<>>
    /\ jiraIssues' = <<>>
    /\ idx' = 0
    /\ calls' = <<>>
    /\ jira' = <<>>
    /\ UNCHANGED <<runVars, queue, repo, now, runErr>>

\* After the range over the repositories: unless the run is a dry run,
\* SaveConfig sets `since` to the current time and writes the file (a
\* failure is logged, and no file is written when none was loaded).
SaveStep ==
    /\ pc = "repos"
    /\ queue = <<>>
    /\ \E dryRun \in BOOLEAN, written \in BOOLEAN :
         savedSince' = IF ~dryRun /\ written THEN now ELSE savedSince
    /\ now' = now + 1
    /\ pc' = "saved"
    /\ UNCHANGED <<fieldIDs, configErr, projects, queue, repo, period, runErr, passes, passVars, diff, translation>>

\* The end of a period: RunE returns nil unless a daemon period is set, and
\* else waits for the period and starts over.
DaemonStep ==
    /\ pc = "saved"
    /\ \E isDaemon \in BOOLEAN : pc' = IF isDaemon THEN "period" ELSE "done"
    /\ UNCHANGED <<runVars, queue, repo, now, runErr, passes, passVars>>

Next ==
    \/ ConfigInvalid
    \/ LoadJIRAConfig
    \/ BeginPeriod
    \/ StartPass
    \/ CollectIssues
    \/ UpdateStep
    \/ CreateStep
    \/ TranslatePanic
    \/ EndPass
    \/ SaveStep
    \/ DaemonStep

Spec == Init /\ [][Next]_vars

\* --------------------------------------------- DidIssueChange on its own
\* The arguments DidIssueChange is applied to: a translated source issue
\* (title, body, state, author, labels) and a destination issue whose
\* summary and description are those of some source issue and whose state,
\* reporter and labels fields are not set, hold a number, or hold a text.
DiffSources ==
    {NewTranslatedIssue([MkIssue(id, Ptr(BodyOf(b))) EXCEPT !.State = st, !.Login = "user" \o Sprint(u), !.Labels = ls]) :
        id \in 1..MaxIssues, b \in 1..MaxIssues, st \in {"open", "closed"}, u \in 1..MaxIssues,
        ls \in {<<>>, <<"bug", "ui">>, <<"ui", "bug">>}}

FieldValues(texts) == {<<>>, <<Num(0)>>} \cup {<<Str(t)>> : t \in texts}

\* The field map that holds, under the key of each role, what v gives for it
\* (nothing when v gives none).
FieldsOf(v) ==
    [f \in {StoreKey(r) : r \in {r \in DOMAIN v : v[r] # <<>>}} |->
        v[CHOOSE r \in DOMAIN v : StoreKey(r) = f][1]]

DiffDestinations ==
    {[NoIssue EXCEPT !.Key = IssueKey(1), !.ID = "1", !.Type = "Task",
                     !.Summary = MkIssue(id, NilPtr).Title,
                     !.Description = IF raw THEN BodyOf(1) ELSE TranslatedBodies[BodyOf(1)],
                     !.Unknowns = FieldsOf([r \in {GitHubStatus, GitHubReporter, GitHubLabels} |->
                                              IF r = GitHubStatus THEN st
                                              ELSE IF r = GitHubReporter THEN rep ELSE ls])] :
        id \in 1..MaxIssues, raw \in BOOLEAN,
        st \in FieldValues({"open", "closed"}),
        rep \in FieldValues({"user" \o Sprint(u) : u \in 1..MaxIssues}),
        ls \in FieldValues({"", "bug,ui", "ui,bug"})}

InitDiff ==
    /\ pc = "diff"
    /\ fieldIDs = NoFieldIDs
    /\ configErr = Nil
    /\ projects = <<>>
    /\ queue = <<>>
    /\ repo = Nil
    /\ period = 0
    /\ now = 1
    /\ savedSince = 0
    /\ runErr = Nil
    /\ passes = <<>>
    /\ ghIssues = <<>>
    /\ jiraIssues = <<>>
    /\ idx = 0
    /\ calls = <<>>
    /\ jira = <<>>
    /\ diff \in [ids : {ResolvedFieldIDs}, gh : DiffSources, jira : DiffDestinations,
                 done : {FALSE}, changed : {FALSE}]
    /\ translation = <<>>

DidIssueChangeCall ==
    /\ pc = "diff"
    /\ ~diff.done
    /\ diff' = [diff EXCEPT !.done = TRUE, !.changed = DidIssueChange(diff.ids, diff.gh, diff.jira)]
    /\ UNCHANGED <<pc, fieldIDs, configErr, projects, queue, repo, period, now, savedSince,
                   runErr, passes, passVars, translation>>

NextDiff == DidIssueChangeCall

SpecDiff == InitDiff /\ [][NextDiff]_vars

\* ------------------------------------------- GitHubToJiraBody on its own
\* The heading levels the translator has a rule for.
HeadingLevels == 6

\* The plain texts: letters, and one text of two words.
RECURSIVE TextsOf(_)
TextsOf(n) ==
    IF n = 0 THEN {<<>>}
    ELSE {Append(t, ch) : t \in TextsOf(n - 1), ch \in {"a", "b"}}

PlainTexts == UNION {TextsOf(n) : n \in 1..MaxText} \cup {<<"a", " ", "b">>}

\* A heading line of GitHub: n number signs, a space, the text.
HeadingLine(n, text) == [k \in 1..n |-> "#"] \o <<" ">> \o text

\* A heading line of JIRA: h, the level, a dot, a space, the text.
JiraHeading(n, text) == <<"h", DecimalDigit(n), ".", " ">> \o text

\* A strong span of GitHub and a strong span of JIRA.
StrongSpan(text) == <<"*", "*">> \o text \o <<"*", "*">>

JiraStrong(text) == <<"*">> \o text \o <<"*">>

Separators == {<<" ">>, <<" ", "a", "n", "d", " ">>}

BoldAndAlsoBold ==
    StrongSpan(<<"b", "o", "l", "d">>) \o <<" ", "a", "n", "d", " ">>
    \o StrongSpan(<<"a", "l", "s", "o", " ", "b", "o", "l", "d">>)

\* The bodies GitHubToJiraBody is applied to: one heading line, two heading
\* lines, one strong span, two strong spans.
Bodies ==
    {HeadingLine(n, t) : n \in 1..HeadingLevels, t \in PlainTexts}
    \cup {HeadingLine(n, <<"a">>) \o <<"\n">> \o HeadingLine(m, <<"b">>) :
            n \in 1..HeadingLevels, m \in 1..HeadingLevels}
    \cup {StrongSpan(t) : t \in PlainTexts}
    \cup {StrongSpan(x) \o sep \o StrongSpan(y) : x \in PlainTexts, y \in PlainTexts, sep \in Separators}
    \cup {BoldAndAlsoBold}

InitBody ==
    /\ pc = "translate"
    /\ fieldIDs = NoFieldIDs
    /\ configErr = Nil
    /\ projects = <<>>
    /\ queue = <<>>
    /\ repo = Nil
    /\ period = 0
    /\ now = 1
    /\ savedSince = 0
    /\ runErr = Nil
    /\ passes = <<>>
    /\ ghIssues = <<>>
    /\ jiraIssues = <<>>
    /\ idx = 0
    /\ calls = <<>>
    /\ jira = <<>>
    /\ diff = <<>>
    /\ translation \in [body : Bodies, done : {FALSE}, out : {<<>>}]

GitHubToJiraBodyCall ==
    /\ pc = "translate"
    /\ ~translation.done
    /\ translation' = [translation EXCEPT !.done = TRUE, !.out = GitHubToJiraBody(translation.body)]
    /\ UNCHANGED <<pc, fieldIDs, configErr, projects, queue, repo, period, now, savedSince,
                   runErr, passes, passVars, diff>>

NextBody == GitHubToJiraBodyCall

SpecBody == InitBody /\ [][NextBody]_vars

\* ----------------------------------------------------- a pass, looked at
\* The range of CompareIssues is over: the pass is about to return nil.
RangeOver == pc = "loop" /\ idx > Len(ghIssues)

\* The positions in calls of the calls of one kind made for a source issue.
CallsOf(op, gh) == {c \in 1..Len(calls) : calls[c].op = op /\ calls[c].gh = gh}

WriteOps == {"jira.CreateIssue", "jira.UpdateIssue"}

\* The custom fields an issue sets, by role.
FieldsSet(ids, issue) == {key \in {FieldKeys[k] : k \in 1..Len(FieldKeys)} :
                            GetFieldKey(ids, key) \in DOMAIN issue.Unknowns}

\* What the destination issue holds for a role: the text, or nothing.
TextOf(ids, jIssue, key) ==
    LET f == GetFieldKey(ids, key)
    IN  IF f \in DOMAIN jIssue.Unknowns /\ jIssue.Unknowns[f].kind = "string"
        THEN <<jIssue.Unknowns[f].s>> ELSE <<>>

\* The five compared fields of the destination issue equal those of the
\* source issue (whose body is not nil).
AllFieldsMatch(ids, issue, jIssue) ==
    /\ jIssue.Summary = issue.Title
    /\ jIssue.Description = TranslatedBodies[Deref(issue.Body)]
    /\ TextOf(ids, jIssue, GitHubStatus) = <<issue.State>>
    /\ TextOf(ids, jIssue, GitHubReporter) = <<issue.Login>>
    /\ TextOf(ids, jIssue, GitHubLabels) = <<Join(issue.Labels, ",")>>

\* The positions of the range already gone through whose source issue has a
\* linked destination issue that matches it in all five fields.
MatchedPositions ==
    {k \in 1..Len(ghIssues) :
        /\ k < idx
        /\ LinkedAt(fieldIDs, ghIssues[k], jiraIssues) # {}
        /\ AllFieldsMatch(fieldIDs, ghIssues[k], FirstLinked(fieldIDs, ghIssues[k], jiraIssues))}

\* C1 (as the claim states it, in a run whose field table was resolved):
\* when a pass ends, every source issue without a linked destination issue
\* in the fetched set has had exactly one createIssue call, whose payload
\* carries summary, description and the six custom fields, and no
\* updateIssue call.
C1_CreatedOnceNeverUpdated ==
    (configErr = Nil /\ (RangeOver \/ pc = "panic")) =>
        \A k \in 1..Len(ghIssues) :
            LinkedAt(fieldIDs, ghIssues[k], jiraIssues) = {} =>
                /\ Cardinality(CallsOf("jira.CreateIssue", ghIssues[k].ID)) = 1
                /\ CallsOf("jira.UpdateIssue", ghIssues[k].ID) = {}
                /\ \A c \in CallsOf("jira.CreateIssue", ghIssues[k].ID) :
                      /\ calls[c].payload.Summary = ghIssues[k].Title
                      /\ Cardinality(DOMAIN calls[c].payload.Unknowns) = Len(FieldKeys)

\* C2: for a source issue whose linked destination issue already matches it
\* in summary, description, state, reporter and labels, DidIssueChange is
\* false, no updateIssue call is made, the destination issue is re-fetched
\* once by its key, and comment reconciliation follows the re-fetch (it is
\* called exactly when the re-fetch succeeded).
C2_UnchangedStillRefetched ==
    pc = "loop" =>
        \A k \in MatchedPositions :
            LET gh == ghIssues[k].ID
                jIssue == FirstLinked(fieldIDs, ghIssues[k], jiraIssues)
            IN  /\ ~DidIssueChange(fieldIDs, NewTranslatedIssue(ghIssues[k]), jIssue)
                /\ CallsOf("jira.UpdateIssue", gh) = {}
                /\ Cardinality(CallsOf("jira.GetIssue", gh)) = 1
                /\ \A c \in CallsOf("jira.GetIssue", gh) :
                      /\ calls[c].key = jIssue.Key
                      /\ calls[c].ok <=> (c < Len(calls) /\ calls[c + 1].op = "CompareComments"
                                                        /\ calls[c + 1].gh = gh
                                                        /\ calls[c + 1].key = jIssue.Key)

\* C2 witness: a matching pair has been gone through, re-fetched with
\* success and handed to comment reconciliation.
C2_Witness ==
    /\ pc = "loop"
    /\ \E k \in MatchedPositions :
          /\ \E c \in CallsOf("jira.GetIssue", ghIssues[k].ID) : calls[c].ok
          /\ CallsOf("CompareComments", ghIssues[k].ID) # {}

\* A createIssue or updateIssue call of the pass has failed.
FailedWrites == {c \in 1..Len(calls) : calls[c].op \in WriteOps /\ ~calls[c].ok}

\* The position in the fetched order of the source issue a call was made for.
PositionOf(gh) == CHOOSE k \in 1..Len(ghIssues) : ghIssues[k].ID = gh

\* C3 (as the claim states it, in a run whose field table was resolved):
\* after a createIssue or updateIssue call has failed for a source issue,
\* the pass neither dies nor ends with an error, and when it ends every
\* source issue that follows has been reconciled (a create, or the re-fetch
\* of the update path, was made for it).
C3_WriteFailureDoesNotStopThePass ==
    \A c \in FailedWrites :
        /\ configErr = Nil => pc \notin {"panic", "failed"}
        /\ RangeOver =>
              \A k \in (PositionOf(calls[c].gh) + 1)..Len(ghIssues) :
                  \/ CallsOf("jira.CreateIssue", ghIssues[k].ID) # {}
                  \/ CallsOf("jira.UpdateIssue", ghIssues[k].ID) # {}
                  \/ CallsOf("jira.GetIssue", ghIssues[k].ID) # {}

\* The source listing of the pass succeeded and returned no issue.
EmptyListing == calls # <<>> /\ calls[1].op = "gh.ListIssues" /\ calls[1].ok /\ ghIssues = <<>>

\* C4: when the source listing returns no issue, CompareIssues returns nil
\* having made no other call: no destination listing, no create, update or
\* re-fetch, no comment reconciliation; the run goes on without an error.
C4_EmptyListingIsANoOp ==
    EmptyListing =>
        /\ Len(calls) = 1
        /\ jiraIssues = <<>> /\ jira = <<>>
        /\ pc \notin {"collect", "loop", "failed", "panic"}
        /\ passes[Len(passes)].ret = "nil"
        /\ runErr = Nil

\* C4 witness: a pass has listed an empty source and returned.
C4_Witness == EmptyListing /\ pc = "repos" /\ passes[Len(passes)].ret = "nil"

\* The re-fetches of the pass that failed (each follows a successful write,
\* or an update path that had nothing to write).
FailedRefetches == {c \in 1..Len(calls) : calls[c].op = "jira.GetIssue" /\ ~calls[c].ok}

RefetchFailureLogged ==
    \A c \in FailedRefetches :
        /\ c < Len(calls)
        /\ calls[c + 1].op = "log.Errorf" /\ calls[c + 1].gh = calls[c].gh
        /\ CallsOf("CompareComments", calls[c].gh) = {}
        /\ pc \in {"loop", "panic"}
        /\ runErr = Nil
        /\ passes[Len(passes)].ret \in {"running", "panic"}

FieldUnresolved == configErr \in {FieldKeys[k] : k \in 1..Len(FieldKeys)}

\* C6 (as the claim states it): when one of the six custom fields is not
\* resolved, no repository pass is begun and no tracker call is made.
C6_UnresolvedFieldAbortsTheRun ==
    FieldUnresolved => passes = <<>> /\ calls = <<>> /\ pc \notin {"repos", "collect", "loop"}

\* The passes of the run that ended on a failed listing.
ListErrors == {"listGitHub", "listJira"}

FailedListings == {k \in 1..Len(passes) : passes[k].ret \in ListErrors}

\* C7 (as the claim states it): after a listing failed, the run goes on (it
\* has not returned the error).
C7_ListFailureEndsThePassOnly ==
    FailedListings # {} => pc # "failed"

\* C7, amended: a failed source or destination listing makes CompareIssues
\* return the error and RunE return it at once: the pass is the last of the
\* run, the repositories left in the range are not visited, no period
\* follows, and nothing is saved after it.
C7_ListFailureEndsTheRun ==
    \A k \in FailedListings :
        /\ k = Len(passes)
        /\ pc = "failed"
        /\ runErr = passes[k].ret
        /\ period = passes[k].period
        /\ savedSince < passes[k].listedAt

\* C7 witness: the listing of the first repository of a period failed while
\* another repository was still to visit.
C7_Witness ==
    /\ FailedListings # {}
    /\ queue # <<>>
    /\ pc = "failed"

\* The tests of DidIssueChange on summary, description, state and reporter,
\* read off the two issues.
SummaryDiffers == diff.jira.Summary # diff.gh.Issue.Title

DescriptionDiffers == diff.jira.Description # diff.gh.TranslatedBody

StateDiffers == TextOf(diff.ids, diff.jira, GitHubStatus) # <<diff.gh.Issue.State>>

ReporterDiffers == TextOf(diff.ids, diff.jira, GitHubReporter) # <<diff.gh.Issue.Login>>

LabelsUnreadable == TextOf(diff.ids, diff.jira, GitHubLabels) = <<>>

JoinedLabels == Join(diff.gh.Issue.Labels, ",")

\* C8: DidIssueChange returns true whenever the summary differs from the
\* title, the description differs from the translated body, the state field
\* cannot be read or differs from the state, or the reporter field cannot
\* be read or differs from the author.
C8_AnyDifferenceIsAChange ==
    (diff.done /\ (SummaryDiffers \/ DescriptionDiffers \/ StateDiffers \/ ReporterDiffers))
        => diff.changed

\* C8 witness: the reporter field is not set, everything else matches
\* (labels included), and DidIssueChange returned true.
C8_Witness ==
    /\ diff.done /\ diff.changed
    /\ ~SummaryDiffers /\ ~DescriptionDiffers /\ ~StateDiffers
    /\ TextOf(diff.ids, diff.jira, GitHubReporter) = <<>>
    /\ TextOf(diff.ids, diff.jira, GitHubLabels) = <<JoinedLabels>>

SourceIssue(gh) == ghIssues[PositionOf(gh)]

UpdateCalls == {c \in 1..Len(calls) : calls[c].op = "jira.UpdateIssue"}

\* C10: every update UpdateIssue submits carries the key, id and issue type
\* of the linked destination issue, the title and translated body, and sets
\* the state, reporter, labels and last-update custom fields and no other:
\* not the GitHub ID field, not the GitHub Number field.
C10_UpdateKeepsIdentityAndLink ==
    \A c \in UpdateCalls :
        LET issue == SourceIssue(calls[c].gh)
            jIssue == FirstLinked(fieldIDs, issue, jiraIssues)
            payload == calls[c].payload
        IN  /\ payload.Key = jIssue.Key /\ payload.ID = jIssue.ID /\ payload.Type = jIssue.Type
            /\ payload.Summary = issue.Title
            /\ payload.Description = TranslatedBodies[Deref(issue.Body)]
            /\ FieldsSet(fieldIDs, payload) = {GitHubStatus, GitHubReporter, GitHubLabels, LastISUpdate}
            /\ Cardinality(DOMAIN payload.Unknowns) <= 4
            /\ GetFieldKey(fieldIDs, GitHubID) \notin DOMAIN payload.Unknowns
            /\ GetFieldKey(fieldIDs, GitHubNumber) \notin DOMAIN payload.Unknowns

\* C10 witness: an update was submitted with success for a destination issue
\* whose issue type is not the one a create sets, with every role resolved.
C10_Witness ==
    \E c \in UpdateCalls :
        /\ calls[c].ok
        /\ calls[c].payload.Type # "Task"
        /\ Cardinality(DOMAIN calls[c].payload.Unknowns) = 4

\* The calls of the pass made for source issues (not the two listings, not
\* the error log).
IssueOps == WriteOps \cup {"jira.GetIssue", "CompareComments"}

\* C11: for each source issue the calls come in the order write (create,
\* or update when a change was detected), re-fetch by key, comment
\* reconciliation: a comment reconciliation comes right after the
\* successful re-fetch of the same issue, a re-fetch comes right after the
\* successful write of the same issue or is the first call made for it, a
\* write is the first call made for its issue, and after a failed write or
\* a failed re-fetch nothing more is called for the issue.
C11_WriteThenRefetchThenComments ==
    \A c \in 1..Len(calls) :
        LET gh == calls[c].gh
            earlier == {b \in 1..(c - 1) : calls[b].gh = gh /\ calls[b].op \in IssueOps}
            later == {b \in (c + 1)..Len(calls) : calls[b].gh = gh /\ calls[b].op \in IssueOps}
        IN  /\ calls[c].op = "CompareComments" =>
                /\ c > 1
                /\ calls[c - 1].op = "jira.GetIssue" /\ calls[c - 1].gh = gh
                /\ calls[c - 1].ok /\ calls[c - 1].key = calls[c].key
                /\ later = {}
            /\ calls[c].op = "jira.GetIssue" =>
                /\ \/ earlier = {}
                   \/ /\ earlier = {c - 1}
                      /\ calls[c - 1].op \in WriteOps /\ calls[c - 1].ok
                      /\ calls[c - 1].key = calls[c].key
                /\ ~calls[c].ok => later = {}
            /\ calls[c].op \in WriteOps =>
                /\ earlier = {}
                /\ ~calls[c].ok => later = {}

\* C11 witness: in one pass, an issue was created, re-fetched and handed to
\* comment reconciliation in that order, and the re-fetch of another issue
\* failed after its successful write.
C11_Witness ==
    /\ \E c \in 1..Len(calls) :
          /\ c + 2 <= Len(calls)
          /\ calls[c].op = "jira.CreateIssue" /\ calls[c].ok
          /\ calls[c + 1].op = "jira.GetIssue" /\ calls[c + 1].ok
          /\ calls[c + 2].op = "CompareComments" /\ calls[c + 2].gh = calls[c].gh
    /\ \E c \in FailedRefetches : c > 1 /\ calls[c - 1].op \in WriteOps /\ calls[c - 1].ok

\* The level the translator writes for a heading of level n.
WrittenLevel(n) == IF n = 4 THEN 3 ELSE n

\* C12: a line of n number signs, a space and plain text is translated to
\* h, n, a dot, a space and the text for n in 1, 2, 3, 5, 6, and to the
\* level-3 prefix for n = 4; so is each line of a body of two such lines.
C12_HeadingLevels ==
    translation.done =>
        /\ \A n \in 1..HeadingLevels, t \in PlainTexts :
              translation.body = HeadingLine(n, t) =>
                  translation.out = JiraHeading(WrittenLevel(n), t)
        /\ \A n \in 1..HeadingLevels, m \in 1..HeadingLevels :
              translation.body = HeadingLine(n, <<"a">>) \o <<"\n">> \o HeadingLine(m, <<"b">>) =>
                  translation.out = JiraHeading(WrittenLevel(n), <<"a">>) \o <<"\n">>
                                    \o JiraHeading(WrittenLevel(m), <<"b">>)

\* C12 witness: a level-4 heading line was translated to a level-3 heading.
C12_Witness ==
    /\ translation.done
    /\ translation.body = HeadingLine(4, <<"a", " ", "b">>)
    /\ translation.out = JiraHeading(3, <<"a", " ", "b">>)

\* C13 (as the claim states it): each strong span of a body is translated
\* on its own into a strong span of JIRA, and no later rule touches the
\* result: one span, two spans with a separator between them, and the
\* example of the claim.
C13_StrongSpansKept ==
    translation.done =>
        /\ \A t \in PlainTexts :
              translation.body = StrongSpan(t) => translation.out = JiraStrong(t)
        /\ \A x \in PlainTexts, y \in PlainTexts, sep \in Separators :
              translation.body = StrongSpan(x) \o sep \o StrongSpan(y) =>
                  translation.out = JiraStrong(x) \o sep \o JiraStrong(y)
        /\ translation.body = BoldAndAlsoBold =>
              translation.out = JiraStrong(<<"b", "o", "l", "d">>) \o <<" ", "a", "n", "d", " ">>
                                \o JiraStrong(<<"a", "l", "s", "o", " ", "b", "o", "l", "d">>)

\* C14: of the fetched destination issues linked to one source issue only
\* the first in fetched order is handed to UpdateIssue: every update,
\* re-fetch and comment reconciliation made for a linked source issue
\* carries the key of that first issue, and no source issue gets more than
\* one destination write in a pass (one create or one update).
C14_FirstLinkedOnly ==
    \A k \in 1..Len(ghIssues) :
        LET gh == ghIssues[k].ID
            linked == LinkedAt(fieldIDs, ghIssues[k], jiraIssues)
            first == jiraIssues[MinOf(linked)].Key
        IN  /\ Cardinality(CallsOf("jira.CreateIssue", gh) \cup CallsOf("jira.UpdateIssue", gh)) <= 1
            /\ Cardinality(CallsOf("jira.GetIssue", gh)) <= 1
            /\ linked # {} =>
                  /\ CallsOf("jira.CreateIssue", gh) = {}
                  /\ \A c \in 1..Len(calls) :
                        (calls[c].gh = gh /\ calls[c].op \in IssueOps) => calls[c].key = first
            /\ linked = {} => CallsOf("jira.UpdateIssue", gh) = {}

\* C14 witness: two fetched destination issues are linked to one source
\* issue, and the update of the pass for it was made on the first.
C14_Witness ==
    \E k \in 1..Len(ghIssues) :
        LET linked == LinkedAt(fieldIDs, ghIssues[k], jiraIssues)
        IN  /\ Cardinality(linked) >= 2
            /\ \E c \in CallsOf("jira.UpdateIssue", ghIssues[k].ID) :
                  calls[c].ok /\ calls[c].key = jiraIssues[MinOf(linked)].Key

\* Every tracker call of the pass succeeded and nothing was logged.
AllCallsSucceeded == \A c \in 1..Len(calls) : calls[c].ok /\ calls[c].op # "log.Errorf"

\* The issues the destination holds that are linked to a source issue.
StoredLinked(issue) ==
    {j \in 1..Len(jira) :
        /\ GetFieldKey(fieldIDs, GitHubID) \in DOMAIN jira[j].Unknowns
        /\ jira[j].Unknowns[GetFieldKey(fieldIDs, GitHubID)] = Num(issue.ID)}

\* C15 (as the claim states it, in a run whose field table was resolved):
\* when the range of a pass is over and every tracker call succeeded, the
\* destination holds for every source issue of the pass a linked issue
\* whose summary, description, state, reporter and labels equal those of
\* the source issue.
C15_PassConverges ==
    (configErr = Nil /\ RangeOver /\ AllCallsSucceeded) =>
        \A k \in 1..Len(ghIssues) :
            \E j \in StoredLinked(ghIssues[k]) : AllFieldsMatch(fieldIDs, ghIssues[k], jira[j])

\* The passes of the period the run is in.
PassesOfPeriod == {k \in 1..Len(passes) : passes[k].period = period}

\* C16 (as the claim states it): the `since` value the configuration file
\* holds once a period has been saved is not later than the instant at
\* which any pass of that period listed the source issues.
C16_CursorNotAfterListing ==
    pc = "saved" => \A k \in PassesOfPeriod : savedSince <= passes[k].listedAt

\* The source issues of the pass that carry no body.
NilBodies == {k \in 1..Len(ghIssues) : ghIssues[k].Body = NilPtr}

\* C17 (as the claim states it, in a run whose field table was resolved):
\* a source issue without a body does not end the pass, and when the range
\* is over it has been reconciled like any other: created, or taken
\* through the update path (re-fetched).
C17_NilBodyIsReconciled ==
    /\ (configErr = Nil /\ NilBodies # {}) => pc # "panic"
    /\ RangeOver =>
          \A k \in NilBodies :
              \/ CallsOf("jira.CreateIssue", ghIssues[k].ID) # {}
              \/ CallsOf("jira.UpdateIssue", ghIssues[k].ID) # {}
              \/ CallsOf("jira.GetIssue", ghIssues[k].ID) # {}

=============================================================================
